---- MODULE Spec2Model ----
(***************************************************************************)
(* Model of the in-memory jobs store of server.js and of its request       *)
(* handlers: POST /api/jobs, PUT /api/jobs/:id, DELETE /api/jobs/:id.       *)
(* Each handler runs to completion (Node's single-threaded event loop), so *)
(* each request is one action.                                             *)
(***************************************************************************)
EXTENDS Integers, Sequences, FiniteSets, TLC

\* ------------------------------------------------------------------ bounds
MaxJobs == 2        \* records the store holds at once in the model
MaxTime == 2        \* last value of the clock Date.now() in the model

\* ------------------------------------------------------- values and inputs
\* JavaScript null / undefined / "" for string-valued fields: every test the
\* code makes on them (x || d, !x) treats the three alike.
Null == "null"
\* null for a timestamp or a falsy number in a create body (x || d).
NullTime == 0
\* A PUT body without a numeric earnings / timeSpent (typeof x !== "number").
NoNum == -1

Workers == {"w1", "w2"}
CallerIds == {"A"}
RandSuffixes == {"K3XQ", "P7WD"}
\* Amount strings are sequences of characters; "" is <<>>.
DefaultAmount == <<"₹", "5", "0", "0", " ", "-", " ", "₹", "1", "5", "0", "0">>
Amount800 == <<"₹", "8", "0", "0">>
\* the status a caller sends through the generic branch
GenericStatuses == {"pending"}

VARIABLES
    jobs,    \* the array `jobs`; each record carries a model-only field holder:
             \* the worker whose accept of it succeeded with no reject or status
             \* override of it since (else Null)
    now,     \* Date.now()
    res      \* the response to the request handled last

vars == <<jobs, now, res>>

\* x || d on strings and on numbers
Or(x, d) == IF x = Null THEN d ELSE x
OrNum(x, d) == IF x = 0 THEN d ELSE x
OrStr(x, d) == IF x = <<>> THEN d ELSE x

\* `JOB-${now}-${Math.random().toString(36).substring(2, 6).toUpperCase()}`
SynthId(t, r) == "JOB-" \o ToString(t) \o "-" \o r

EmptyBody ==
    [id |-> Null, serverId |-> Null, jobId |-> Null,
     status |-> Null, assignedTo |-> Null, workerId |-> Null,
     amount |-> <<>>, createdAt |-> NullTime, earnings |-> 0,
     acceptedAt |-> NullTime, completedAt |-> NullTime]

\* The POST bodies the model sends.
CreateBodies ==
    {EmptyBody,
     [EmptyBody EXCEPT !.id = "A", !.amount = Amount800],
     [EmptyBody EXCEPT !.id = "A", !.amount = Amount800, !.status = "accepted"],
     [EmptyBody EXCEPT !.id = "A", !.amount = Amount800, !.workerId = "w1"],
     [EmptyBody EXCEPT !.id = "A", !.jobId = "B", !.amount = Amount800]}

\* createJobFromBody. The descriptive fields (title, serviceType, serviceName,
\* customerName, contact, description, location, locationCoords, timestamp)
\* are set here and never read or written by a handler; amount stands for them.
incomingId(body, t, r) ==
    Or(body.id, Or(body.serverId, Or(body.jobId, SynthId(t, r))))

\* A faulty creation that keeps the body's own jobId beside the chosen id.
createJobKeepsJobId(body, t, r) ==
    [id |-> incomingId(body, t, r),
     jobId |-> Or(body.jobId, incomingId(body, t, r)),
     amount |-> OrStr(body.amount, DefaultAmount),
     status |-> Or(body.status, "available"),
     assignedTo |-> Or(body.assignedTo, Null),
     createdAt |-> OrNum(body.createdAt, t),
     workerId |-> Or(body.workerId, Null),
     completionPhotoURL |-> Null,
     earnings |-> OrNum(body.earnings, 0),
     timeSpent |-> 0,
     acceptedAt |-> OrNum(body.acceptedAt, NullTime),
     completedAt |-> OrNum(body.completedAt, NullTime),
     holder |-> Null]

createJobFromBody(body, t, r) ==
    [id |-> incomingId(body, t, r),
     jobId |-> incomingId(body, t, r),
     amount |-> OrStr(body.amount, DefaultAmount),
     status |-> Or(body.status, "available"),
     assignedTo |-> Or(body.assignedTo, Null),
     createdAt |-> OrNum(body.createdAt, t),
     workerId |-> Or(body.workerId, Null),
     completionPhotoURL |-> Null,
     earnings |-> OrNum(body.earnings, 0),
     timeSpent |-> 0,
     acceptedAt |-> OrNum(body.acceptedAt, NullTime),
     completedAt |-> OrNum(body.completedAt, NullTime),
     holder |-> Null]

\* (j) => j.id === pathId || j.jobId === pathId || j._id === pathId
\* (no record has an _id and pathId is a string, so the third test is false)
Matches(j, pathId) == j.id = pathId \/ j.jobId = pathId

\* jobs.findIndex(...) from position i on: the first matching position, 0 for -1
RECURSIVE FindFrom(_, _, _)
FindFrom(js, pathId, i) ==
    IF i > Len(js) THEN 0
    ELSE IF Matches(js[i], pathId) THEN i
    ELSE FindFrom(js, pathId, i + 1)

\* A faulty lookup that resolves an id to the record inserted last
\* (findLastIndex).
RECURSIVE FindLastFrom(_, _, _)
FindLastFrom(js, pathId, i) ==
    IF i = 0 THEN 0
    ELSE IF Matches(js[i], pathId) THEN i
    ELSE FindLastFrom(js, pathId, i - 1)

FindLastIndex(js, pathId) == FindLastFrom(js, pathId, Len(js))

FindIndex(js, pathId) == FindFrom(js, pathId, 1)

\* ---------------------------------------------------- PUT /api/jobs/:id
\* Faulty variants of the status test of accept.
CanAcceptNotCompleted(job) == job.status # "completed"
CanAcceptNotAccepted(job) == job.status # "accepted"
CanAcceptOnlyAvailable(job) == job.status = "available"

\* job.status !== "available" && job.status !== "pending" is the refusal
CanAccept(job) == job.status = "available" \/ job.status = "pending"

\* A faulty accept that sets assignedTo and not its mirror workerId.
AcceptJobForgetsMirror(job, workerId, t) ==
    [job EXCEPT !.status = "accepted", !.assignedTo = workerId, !.acceptedAt = t]

\* A faulty accept that also restamps createdAt.
AcceptJobRestamps(job, workerId, t) ==
    [job EXCEPT !.status = "accepted", !.assignedTo = workerId,
                !.workerId = workerId, !.acceptedAt = t, !.createdAt = t]

\* the accept branch's assignments
AcceptJob(job, workerId, t) ==
    [job EXCEPT !.status = "accepted", !.assignedTo = workerId,
                !.workerId = workerId, !.acceptedAt = t]

\* A faulty reject that releases the status and leaves the assignee in place.
RejectJobKeepsAssignee(job) ==
    [job EXCEPT !.status = "available", !.workerId = Null]

\* A faulty reject that also forgets when the job was accepted.
RejectJobClearsStamp(job) ==
    [job EXCEPT !.status = "available", !.assignedTo = Null, !.workerId = Null,
                !.acceptedAt = NullTime]

\* the reject branch's assignments
RejectJob(job) ==
    [job EXCEPT !.status = "available", !.assignedTo = Null, !.workerId = Null]

\* A faulty ownership test that only asks for a workerId.
CanCompleteAnyWorker(job, workerId) == workerId # Null

\* !workerId || job.assignedTo !== workerId is the refusal
CanComplete(job, workerId) == workerId # Null /\ job.assignedTo = workerId

\* the complete branch's assignments
CompleteJob(job, body, t) ==
    [job EXCEPT !.status = "completed",
                !.earnings = IF body.earnings # NoNum THEN body.earnings ELSE @,
                !.timeSpent = IF body.timeSpent # NoNum THEN body.timeSpent ELSE @,
                !.completionPhotoURL =
                    IF body.completionPhotoURL # Null THEN body.completionPhotoURL ELSE @,
                !.completedAt = t]

\* A faulty status override that also unassigns the job.
GenericJobUnassigns(job, status) ==
    [job EXCEPT !.status = status, !.assignedTo = Null]

\* the generic branch's assignment
GenericJob(job, status) == [job EXCEPT !.status = status]

Response(js, code, error) == [jobs |-> js, code |-> code, error |-> error]

\* The handler of PUT /api/jobs/:id: the store and the response it leaves.
\* error names the refusal: 404 "Job not found" is NotFound, 400 "Job already
\* taken" is Conflict, 400 "workerId is required" is InvalidInput, 400 "Only
\* assigned worker can complete" is Forbidden.
PutJob(js, pathId, body, t) ==
    LET index == FindIndex(js, pathId) IN
    IF index = 0 THEN Response(js, 404, "NotFound")
    ELSE
      LET job == js[index]
          Ok(j, h) == Response([js EXCEPT ![index] = [j EXCEPT !.holder = h]],
                               200, "None")
          Fail(error) == Response(js, 400, error)
      IN
      IF body.status = "accepted" THEN
          IF ~CanAccept(job) THEN Fail("Conflict")
          ELSE IF body.workerId = Null THEN Fail("InvalidInput")
          ELSE Ok(AcceptJob(job, body.workerId, t), body.workerId)
      ELSE IF body.status = "rejected" THEN Ok(RejectJob(job), Null)
      ELSE IF body.status = "completed" THEN
          IF ~CanComplete(job, body.workerId) THEN Fail("Forbidden")
          ELSE Ok(CompleteJob(job, body, t), job.holder)
      ELSE IF body.status # Null THEN Ok(GenericJob(job, body.status), Null)
      ELSE Ok(job, job.holder)

PutBody(status, workerId) ==
    [status |-> status, workerId |-> workerId, earnings |-> NoNum,
     timeSpent |-> NoNum, completionPhotoURL |-> Null]

\* The completion data the model sends with a complete request.
CompletionData ==
    {[earnings |-> NoNum, timeSpent |-> NoNum, completionPhotoURL |-> Null],
     [earnings |-> 100, timeSpent |-> 5, completionPhotoURL |-> "photo"]}

CompleteBody(workerId, data) ==
    [status |-> "completed", workerId |-> workerId, earnings |-> data.earnings,
     timeSpent |-> data.timeSpent, completionPhotoURL |-> data.completionPhotoURL]

\* ids a request path carries: the ids of the stored records and an unknown id
PathIds == {jobs[i].id : i \in 1..Len(jobs)} \cup {"nope"}

Put(pathId, body) ==
    LET r == PutJob(jobs, pathId, body, now) IN
    /\ jobs' = r.jobs
    /\ res' = [code |-> r.code, error |-> r.error]
    /\ UNCHANGED now

Accept(pathId, workerId) == Put(pathId, PutBody("accepted", workerId))

Reject(pathId) == Put(pathId, PutBody("rejected", Null))

Complete(pathId, workerId, data) == Put(pathId, CompleteBody(workerId, data))

SetStatus(pathId, status) == Put(pathId, PutBody(status, Null))

\* a PUT whose body has no status
Touch(pathId) == Put(pathId, PutBody(Null, Null))

\* --------------------------------------------------------- POST /api/jobs
\* r is the random suffix of a synthesized id. The model leaves out the draw
\* of a suffix that an id synthesized in the same millisecond already has
\* (one chance in 36^4).
Create(body, r) ==
    /\ Len(jobs) < MaxJobs
    /\ (body.id = Null /\ body.serverId = Null /\ body.jobId = Null) =>
          \A i \in 1..Len(jobs) : jobs[i].id # SynthId(now, r)
    /\ jobs' = Append(jobs, createJobFromBody(body, now, r))
    /\ res' = [code |-> 201, error |-> "None"]
    /\ UNCHANGED now

\* ------------------------------------------------- DELETE /api/jobs/:id
\* jobs.splice(index, 1)
Splice(js, index) ==
    [i \in 1..(Len(js) - 1) |-> IF i < index THEN js[i] ELSE js[i + 1]]

DeleteJob(js, pathId) ==
    LET index == FindIndex(js, pathId) IN
    IF index = 0 THEN Response(js, 404, "NotFound")
    ELSE Response(Splice(js, index), 200, "None")

Delete(pathId) ==
    LET r == DeleteJob(jobs, pathId) IN
    /\ jobs' = r.jobs
    /\ res' = [code |-> r.code, error |-> r.error]
    /\ UNCHANGED now

\* --------------------------------------------------------- GET /api/jobs
\* the status values a caller sends as ?status=
StatusFilters == {"available", "accepted", "completed"}

\* The handler answers data: jobs; it does not read req.query, so the filters
\* a caller sends (status, workerId; Null for none) have no effect.
ListJobs(js, status, workerId) == js

List(status, workerId) ==
    /\ res' = [code |-> 200, error |-> "None"]
    /\ UNCHANGED <<jobs, now>>

Init ==
    /\ jobs = <<>>
    /\ now = 1
    /\ res = [code |-> 0, error |-> "None"]

\* The clock advances between requests.
Tick ==
    /\ now < MaxTime
    /\ now' = now + 1
    /\ UNCHANGED <<jobs, res>>

WorkerArgs == Workers \cup {Null}

CreateRequest == \E body \in CreateBodies, r \in RandSuffixes : Create(body, r)
AcceptRequest == \E pathId \in PathIds, w \in WorkerArgs : Accept(pathId, w)
RejectRequest == \E pathId \in PathIds : Reject(pathId)
CompleteRequest ==
    \E pathId \in PathIds, w \in WorkerArgs, data \in CompletionData :
        Complete(pathId, w, data)
StatusRequest == \E pathId \in PathIds, s \in GenericStatuses : SetStatus(pathId, s)
TouchRequest == \E pathId \in PathIds : Touch(pathId)
DeleteRequest == \E pathId \in PathIds : Delete(pathId)
ListRequest ==
    \E status \in StatusFilters \cup {Null}, w \in WorkerArgs : List(status, w)

\* a PUT request of any kind
PutStep ==
    AcceptRequest \/ RejectRequest \/ CompleteRequest \/ StatusRequest \/ TouchRequest

Next ==
    \/ Tick
    \/ CreateRequest
    \/ AcceptRequest
    \/ RejectRequest
    \/ CompleteRequest
    \/ StatusRequest
    \/ TouchRequest
    \/ DeleteRequest
    \/ ListRequest

Spec == Init /\ [][Next]_vars
\* ================================================================= claims
\* The claims are about what a handler does with a request in a state the
\* store can reach: each is stated of the handler's result in every reachable
\* state, for every request of the kind the claim is about.

\* the position a request path resolves to (0: no record)
Target(pathId) == FindIndex(jobs, pathId)

AcceptResult(pathId, w) == PutJob(jobs, pathId, PutBody("accepted", w), now)
RejectResult(pathId) == PutJob(jobs, pathId, PutBody("rejected", Null), now)
CompleteResult(pathId, w, d) == PutJob(jobs, pathId, CompleteBody(w, d), now)

\* the bodies of the PUT requests the model sends
PutBodies ==
    {PutBody("accepted", w) : w \in WorkerArgs}
    \cup {PutBody("rejected", Null)}
    \cup {CompleteBody(w, d) : w \in WorkerArgs, d \in CompletionData}
    \cup {PutBody(st, Null) : st \in GenericStatuses}
    \cup {PutBody(Null, Null)}

\* C1: once an accept of a job has succeeded, and until a reject or a status
\* override of that job, every accept of it (by any worker, or by none) is
\* refused as Conflict, leaves the store as it is, and the job stays assigned
\* to the first acceptor; an accept of an available job by a worker succeeds
\* and assigns the job to that worker.
AcceptIsExclusive ==
    \A p \in PathIds, w \in WorkerArgs :
        LET i == Target(p) IN
        /\ (i # 0 /\ jobs[i].holder # Null) =>
              /\ AcceptResult(p, w) = Response(jobs, 400, "Conflict")
              /\ jobs[i].assignedTo = jobs[i].holder
        /\ (i # 0 /\ jobs[i].status = "available" /\ w # Null) =>
              /\ AcceptResult(p, w).code = 200
              /\ AcceptResult(p, w).jobs[i].assignedTo = w
              /\ AcceptResult(p, w).jobs[i].holder = w

\* C1 witness: a second accept was refused as Conflict on the only job, which
\* is held by its first acceptor.
SecondAcceptRefused ==
    /\ Len(jobs) = 1
    /\ jobs[1].holder \in Workers
    /\ jobs[1].status = "accepted"
    /\ res.error = "Conflict"

\* C2: every accepted or completed job has an assigned worker and every
\* available job has none.
StatusMatchesAssignment ==
    \A i \in 1..Len(jobs) :
        /\ jobs[i].status \in {"accepted", "completed"} => jobs[i].assignedTo # Null
        /\ jobs[i].status = "available" => jobs[i].assignedTo = Null

\* C3: a complete request by anyone but the job's assigned worker (another
\* worker, no worker, or the job unassigned) is refused with an error and
\* leaves every field of every job as it was.
CompleteByOtherWorkerFails ==
    \A p \in PathIds, w \in WorkerArgs, d \in CompletionData :
        LET i == Target(p) IN
        (i # 0 /\ (w = Null \/ jobs[i].assignedTo # w)) =>
            CompleteResult(p, w, d) = Response(jobs, 400, "Forbidden")

\* C3 witness: a complete was refused as Forbidden on the only job, which is
\* accepted by a worker.
CompleteRefused ==
    /\ Len(jobs) = 1
    /\ jobs[1].status = "accepted"
    /\ jobs[1].assignedTo \in Workers
    /\ res.error = "Forbidden"

KeepsStatusAndWorker(i, r) ==
    /\ r.jobs[i].status = jobs[i].status
    /\ r.jobs[i].assignedTo = jobs[i].assignedTo

\* C4 as stated: once a job is completed, no accept, reject or complete
\* request changes its status or its assigned worker.
CompletedIsTerminal ==
    \A i \in 1..Len(jobs) :
        jobs[i].status = "completed" =>
            \A p \in PathIds, w \in WorkerArgs, d \in CompletionData :
                /\ KeepsStatusAndWorker(i, AcceptResult(p, w))
                /\ KeepsStatusAndWorker(i, RejectResult(p))
                /\ KeepsStatusAndWorker(i, CompleteResult(p, w, d))

\* C4 amended: once a job is completed, no accept or complete request changes
\* its status or its assigned worker; a reject request for it does: it sets
\* the status to available and clears the assigned worker.
CompletedSurvivesAcceptAndComplete ==
    \A i \in 1..Len(jobs) :
        jobs[i].status = "completed" =>
            \A p \in PathIds, w \in WorkerArgs, d \in CompletionData :
                /\ KeepsStatusAndWorker(i, AcceptResult(p, w))
                /\ KeepsStatusAndWorker(i, CompleteResult(p, w, d))
                /\ Target(p) = i =>
                      /\ RejectResult(p).jobs[i].status = "available"
                      /\ RejectResult(p).jobs[i].assignedTo = Null

\* C4 witness: an accept was refused on the only job, which is completed.
AcceptOfCompletedRefused ==
    /\ Len(jobs) = 1
    /\ jobs[1].status = "completed"
    /\ res.error = "Conflict"

\* C5: a complete request for a job that is already completed, by the worker
\* that completed it, is refused and changes nothing.
SecondCompleteFails ==
    \A p \in PathIds, w \in Workers, d \in CompletionData :
        LET i == Target(p) IN
        (i # 0 /\ jobs[i].status = "completed" /\ jobs[i].assignedTo = w) =>
            /\ CompleteResult(p, w, d).code = 400
            /\ CompleteResult(p, w, d).jobs = jobs

\* The earnings the specification derives from an amount string: the number
\* written by the first run of digits, 500 when there is no digit.
FallbackEarnings == 500

IsDigit(c) == c \in {"0", "1", "2", "3", "4", "5", "6", "7", "8", "9"}

DigitValue(c) ==
    CASE c = "0" -> 0 [] c = "1" -> 1 [] c = "2" -> 2 [] c = "3" -> 3
      [] c = "4" -> 4 [] c = "5" -> 5 [] c = "6" -> 6 [] c = "7" -> 7
      [] c = "8" -> 8 [] c = "9" -> 9

RECURSIVE SkipToDigit(_)
SkipToDigit(s) ==
    IF s = <<>> \/ IsDigit(Head(s)) THEN s ELSE SkipToDigit(Tail(s))

RECURSIVE ReadDigits(_, _)
ReadDigits(s, acc) ==
    IF s = <<>> \/ ~IsDigit(Head(s)) THEN acc
    ELSE ReadDigits(Tail(s), 10 * acc + DigitValue(Head(s)))

DerivedEarnings(amount) ==
    LET d == SkipToDigit(amount) IN
    IF d = <<>> THEN FallbackEarnings ELSE ReadDigits(d, 0)

\* C6: after a successful complete the job's earnings is the explicit numeric
\* earnings of the request, or without one the number derived from the job's
\* amount string.
EarningsComputed ==
    \A p \in PathIds, w \in Workers, d \in CompletionData :
        LET i == Target(p) IN
        (i # 0 /\ CompleteResult(p, w, d).code = 200) =>
            CompleteResult(p, w, d).jobs[i].earnings =
                IF d.earnings # NoNum THEN d.earnings
                ELSE DerivedEarnings(jobs[i].amount)

\* C7: no two records of the store have the same id.
JobIdsUnique ==
    \A i, k \in 1..Len(jobs) : i # k => jobs[i].id # jobs[k].id

\* C8: accept checks, in this order: the id matches a job (else NotFound), the
\* job is available or pending (else Conflict), a workerId is given (else
\* InvalidInput); a refused accept leaves the store as it is; an accept of a
\* pending job succeeds with the effect it has on an available one.
AcceptValidates ==
    \A p \in PathIds, w \in WorkerArgs :
        LET i == Target(p)
            r == AcceptResult(p, w)
        IN
        /\ i = 0 => r = Response(jobs, 404, "NotFound")
        /\ (i # 0 /\ jobs[i].status \notin {"available", "pending"}) =>
              r = Response(jobs, 400, "Conflict")
        /\ (i # 0 /\ jobs[i].status \in {"available", "pending"} /\ w = Null) =>
              r = Response(jobs, 400, "InvalidInput")
        /\ (i # 0 /\ jobs[i].status \in {"available", "pending"} /\ w # Null) =>
              r = Response([jobs EXCEPT ![i] =
                              [jobs[i] EXCEPT !.status = "accepted", !.assignedTo = w,
                                              !.workerId = w, !.acceptedAt = now,
                                              !.holder = w]],
                           200, "None")

\* C8 witness: an accept without workerId was refused on the only job, which
\* is pending.
AcceptWithoutWorkerRefused ==
    /\ Len(jobs) = 1
    /\ jobs[1].status = "pending"
    /\ res.error = "InvalidInput"

\* C9: once a job's acceptedAt (completedAt) is set, no request changes it.
StampsSetOnce ==
    \A p \in PathIds, body \in PutBodies :
        LET r == PutJob(jobs, p, body, now) IN
        \A i \in 1..Len(jobs) :
            /\ jobs[i].acceptedAt # NullTime =>
                  r.jobs[i].acceptedAt = jobs[i].acceptedAt
            /\ jobs[i].completedAt # NullTime =>
                  r.jobs[i].completedAt = jobs[i].completedAt

\* C10: no accept, reject, complete or status request changes the id or the
\* createdAt of any job, nor the number of jobs.
IdAndCreatedAtImmutable ==
    \A p \in PathIds, body \in PutBodies :
        LET r == PutJob(jobs, p, body, now) IN
        /\ Len(r.jobs) = Len(jobs)
        /\ \A i \in 1..Len(jobs) :
              /\ r.jobs[i].id = jobs[i].id
              /\ r.jobs[i].createdAt = jobs[i].createdAt

\* C10 witness: a job created earlier was accepted and completed later.
CompletedAfterCreation ==
    \E i \in 1..Len(jobs) :
        /\ jobs[i].createdAt < jobs[i].acceptedAt
        /\ jobs[i].status = "completed"
        /\ res.code = 200

\* C11: a reject of an existing job, whatever its status, sets the status to
\* available and the assigned worker (assignedTo and its mirror workerId) to
\* null and changes no other field of any job; a reject of a job that is
\* available with no assigned worker leaves the store as it is, and a second
\* reject leaves what the first left; a reject of an id that matches no job is
\* refused as NotFound and leaves the store as it is.
RejectResets ==
    \A p \in PathIds :
        LET i == Target(p)
            r == RejectResult(p)
        IN
        /\ i = 0 => r = Response(jobs, 404, "NotFound")
        /\ i # 0 =>
              /\ r = Response([jobs EXCEPT ![i] =
                                [jobs[i] EXCEPT !.status = "available",
                                                !.assignedTo = Null,
                                                !.workerId = Null,
                                                !.holder = Null]],
                              200, "None")
              /\ PutJob(r.jobs, p, PutBody("rejected", Null), now).jobs = r.jobs
        /\ (i # 0 /\ jobs[i].status = "available" /\ jobs[i].assignedTo = Null
                  /\ jobs[i].workerId = Null) =>
              r.jobs = jobs

\* C11 witness: the only job was accepted, completed and then rejected: it is
\* available with no worker and keeps its two stamps.
CompletedJobRejected ==
    /\ Len(jobs) = 1
    /\ jobs[1].status = "available"
    /\ jobs[1].assignedTo = Null
    /\ jobs[1].acceptedAt # NullTime
    /\ jobs[1].completedAt # NullTime
    /\ res.code = 200

DeleteResult(pathId) == DeleteJob(jobs, pathId)

\* C12: after a successful delete no job with the deleted id remains, so the
\* next accept, reject, complete, status request or delete for that id is
\* refused as NotFound; a delete of an id that matches no job is refused as
\* NotFound and leaves the store as it is.
DeleteRemovesId ==
    \A p \in PathIds :
        LET r == DeleteResult(p) IN
        /\ Target(p) = 0 => r = Response(jobs, 404, "NotFound")
        /\ r.code = 200 =>
              /\ \A i \in 1..Len(r.jobs) : r.jobs[i].id # p
              /\ DeleteJob(r.jobs, p).error = "NotFound"
              /\ \A body \in PutBodies :
                    PutJob(r.jobs, p, body, now).error = "NotFound"

\* C13: a list with status filter s returns exactly the jobs whose status is
\* s, a list with worker filter w only jobs assigned to w, and both in
\* insertion order.
ListFilters ==
    /\ \A s \in StatusFilters :
          ListJobs(jobs, s, Null) = SelectSeq(jobs, LAMBDA j : j.status = s)
    /\ \A w \in Workers :
          LET r == ListJobs(jobs, Null, w) IN
          /\ \A i \in 1..Len(r) : r[i].assignedTo = w
          /\ r = SelectSeq(jobs, LAMBDA j : \E i \in 1..Len(r) : r[i] = j)

\* C14: a complete request succeeds only on a job whose status is accepted; on
\* a job of any other status it is refused and leaves the store as it is.
CompleteOnlyFromAccepted ==
    \A p \in PathIds, w \in WorkerArgs, d \in CompletionData :
        LET i == Target(p)
            r == CompleteResult(p, w, d)
        IN
        (i # 0 /\ jobs[i].status # "accepted") =>
            /\ r.code = 400
            /\ r.jobs = jobs

\* status values a caller may send that are none of accepted, rejected,
\* completed
OverrideStatuses == GenericStatuses \cup {"available", "cancelled"}

\* C15: an update of an existing job with a status s that is none of
\* accepted, rejected, completed succeeds from any current status, whatever
\* workerId the body carries, sets the job's status to s and changes no other
\* field of the job (assignedTo, workerId, acceptedAt, completedAt included)
\* and no other job.
GenericOverrides ==
    \A p \in PathIds, s \in OverrideStatuses, w \in WorkerArgs :
        LET i == Target(p) IN
        i # 0 =>
            PutJob(jobs, p, PutBody(s, w), now) =
                Response([jobs EXCEPT ![i] =
                            [jobs[i] EXCEPT !.status = s, !.holder = Null]],
                         200, "None")

\* C15 witness: the only job was accepted and then overridden to pending: it
\* keeps its worker and its acceptedAt.
AcceptedJobOverridden ==
    /\ Len(jobs) = 1
    /\ jobs[1].status = "pending"
    /\ jobs[1].assignedTo \in Workers
    /\ jobs[1].workerId = jobs[1].assignedTo
    /\ jobs[1].acceptedAt # NullTime
    /\ res.code = 200

\* every complete request for pathId in store js, by any worker or none, is
\* refused and leaves js as it is
NobodyCompletes(js, pathId) ==
    \A w \in WorkerArgs, d \in CompletionData :
        PutJob(js, pathId, CompleteBody(w, d), now) = Response(js, 400, "Forbidden")

\* C16: a reject of a job leaves it with no assigned worker; while a job has
\* no assigned worker every complete of it, by any worker, is refused, and
\* the only request that gives it a worker is a successful accept, which
\* gives it the acceptor; after a successful accept by w' a complete of the
\* job succeeds for w' and for no other worker; and no request but a
\* successful accept or reject changes a job's assigned worker.
RejectRevokesCompletion ==
    \A p \in PathIds :
        LET i == Target(p) IN
        i # 0 =>
            /\ RejectResult(p).code = 200
            /\ NobodyCompletes(RejectResult(p).jobs, p)
            /\ jobs[i].assignedTo = Null => NobodyCompletes(jobs, p)
            /\ \A body \in PutBodies :
                  LET r == PutJob(jobs, p, body, now) IN
                  r.jobs[i].assignedTo # jobs[i].assignedTo =>
                      /\ r.code = 200
                      /\ \/ /\ body.status = "accepted"
                            /\ body.workerId # Null
                            /\ r.jobs[i].assignedTo = body.workerId
                         \/ /\ body.status = "rejected"
                            /\ r.jobs[i].assignedTo = Null
            /\ \A w1 \in Workers :
                  LET a == AcceptResult(p, w1) IN
                  a.code = 200 =>
                      \A w \in WorkerArgs, d \in CompletionData :
                          (PutJob(a.jobs, p, CompleteBody(w, d), now).code = 200)
                              <=> (w = w1)

\* C16 witness: the only job was accepted and then rejected, and a complete
\* of it was refused after that.
CompleteAfterRejectRefused ==
    /\ Len(jobs) = 1
    /\ jobs[1].status = "available"
    /\ jobs[1].assignedTo = Null
    /\ jobs[1].acceptedAt # NullTime
    /\ jobs[1].completedAt = NullTime
    /\ res.error = "Forbidden"

\* position i holds the earliest-inserted record that pathId matches
IsEarliestMatch(i, pathId) ==
    /\ Matches(jobs[i], pathId)
    /\ \A k \in 1..(i - 1) : ~Matches(jobs[k], pathId)

\* an update or a delete for pathId acts on position i and on no other
ActsOnlyOn(i, pathId) ==
    /\ \A body \in PutBodies :
          LET r == PutJob(jobs, pathId, body, now) IN
          /\ Len(r.jobs) = Len(jobs)
          /\ \A k \in 1..Len(jobs) : k # i => r.jobs[k] = jobs[k]
    /\ LET r == DeleteResult(pathId) IN
       /\ r.code = 200
       /\ Len(r.jobs) = Len(jobs) - 1
       /\ \A k \in 1..(i - 1) : r.jobs[k] = jobs[k]
       /\ \A k \in (i + 1)..Len(jobs) : r.jobs[k - 1] = jobs[k]

\* an update or a delete for pathId, which matches no record, changes nothing
ActsOnNothing(pathId) ==
    /\ \A body \in PutBodies : PutJob(jobs, pathId, body, now).jobs = jobs
    /\ DeleteResult(pathId).jobs = jobs

UpdateAndDeleteTouchOne ==
    \A p \in PathIds :
        /\ \A i \in 1..Len(jobs) : IsEarliestMatch(i, p) => ActsOnlyOn(i, p)
        /\ (\A i \in 1..Len(jobs) : ~Matches(jobs[i], p)) => ActsOnNothing(p)

\* a create request appends one record and changes no record the store had
CreateAppends ==
    CreateRequest =>
        /\ Len(jobs') = Len(jobs) + 1
        /\ \A k \in 1..Len(jobs) : jobs'[k] = jobs[k]

\* C17: an update or a delete acts on the earliest-inserted record whose id
\* matches the path id and leaves every other record, a later record with the
\* same id included, and the order of the other records as they were; a create
\* appends exactly one record at the end and changes no existing record.
TouchesOneRecord == []UpdateAndDeleteTouchOne /\ [][CreateAppends]_vars

\* C17 witness: of two records with the same id, the first was accepted after
\* the second was created, and the second is as it was created.
FirstOfTwoAccepted ==
    /\ Len(jobs) = 2
    /\ jobs[1].id = jobs[2].id
    /\ jobs[1].holder \in Workers
    /\ jobs[1].acceptedAt > jobs[2].createdAt
    /\ jobs[2].status = "available"
    /\ jobs[2].assignedTo = Null
    /\ jobs[2].acceptedAt = NullTime
    /\ res.code = 200

FieldsAgree(job) == job.assignedTo = job.workerId

\* C18: a job created from a body without assignedTo and workerId has equal
\* assignedTo and workerId, and every request keeps them equal on every job
\* where they are (so they are equal in every reachable state of such a job);
\* after a successful accept or reject of any job, created with such fields
\* or not, its two fields are equal: both the acceptor, or both null.
AssignmentFieldsAgree ==
    /\ \A body \in CreateBodies, r \in RandSuffixes :
          (body.assignedTo = Null /\ body.workerId = Null) =>
              FieldsAgree(createJobFromBody(body, now, r))
    /\ \A p \in PathIds :
          LET i == Target(p) IN
          /\ \A body \in PutBodies :
                LET r == PutJob(jobs, p, body, now) IN
                \A k \in 1..Len(jobs) :
                    FieldsAgree(jobs[k]) => FieldsAgree(r.jobs[k])
          /\ \A k \in 1..Len(DeleteResult(p).jobs) :
                \E m \in 1..Len(jobs) : DeleteResult(p).jobs[k] = jobs[m]
          /\ \A w \in Workers :
                AcceptResult(p, w).code = 200 =>
                    /\ AcceptResult(p, w).jobs[i].assignedTo = w
                    /\ AcceptResult(p, w).jobs[i].workerId = w
          /\ RejectResult(p).code = 200 =>
                /\ RejectResult(p).jobs[i].assignedTo = Null
                /\ RejectResult(p).jobs[i].workerId = Null

\* C18 witness: a job created with a workerId and no assignedTo is stored
\* behind a job that an accept gave the same worker in both fields.
AcceptedWithBothFields ==
    /\ Len(jobs) = 2
    /\ jobs[1].status = "accepted"
    /\ jobs[1].holder \in Workers
    /\ jobs[1].assignedTo = jobs[1].holder
    /\ jobs[1].workerId = jobs[1].holder
    /\ jobs[2].assignedTo = Null
    /\ jobs[2].workerId # Null
    /\ res.code = 200

\* C19: every stored job has the same id and jobId: creation gives both the
\* same identifier, also from a body whose id and jobId differ, and no update
\* changes either.
IdIsJobId ==
    /\ \A i \in 1..Len(jobs) : jobs[i].id = jobs[i].jobId
    /\ \A body \in CreateBodies, r \in RandSuffixes :
          createJobFromBody(body, now, r).id = createJobFromBody(body, now, r).jobId
    /\ \A p \in PathIds, body \in PutBodies :
          LET r == PutJob(jobs, p, body, now) IN
          \A i \in 1..Len(jobs) :
              /\ r.jobs[i].id = jobs[i].id
              /\ r.jobs[i].jobId = jobs[i].jobId

\* C19 witness: the only job, created with the caller's id, was accepted and
\* completed and has that id in both fields.
CallerIdKept ==
    /\ Len(jobs) = 1
    /\ jobs[1].id \in CallerIds
    /\ jobs[1].jobId = jobs[1].id
    /\ jobs[1].status = "completed"
    /\ jobs[1].holder \in Workers
    /\ res.code = 200
====
